---- MODULE Spec2Model ----
(***************************************************************************)
(* A model of psl-python/pslpython/runtime.py: the bridge that starts the  *)
(* embedded JVM through jpype (at most once), serializes a configuration   *)
(* with json.dumps, calls Runtime.serializedRun and parses its answer with *)
(* json.loads, together with the command-line entry (_load_args, main).    *)
(*                                                                         *)
(* Text is a sequence of one-character strings.  Values of the structured  *)
(* model are tagged records.  json.dumps / json.loads are modelled by what *)
(* they do on text, so that a round trip is something TLC can refute.      *)
(***************************************************************************)
EXTENDS Integers, Sequences, FiniteSets, TLC

(***************************************************************************)
(* Structured values (what Python's json module maps to and from text).    *)
(***************************************************************************)
VNull == [t |-> "null"]
VBool(b) == [t |-> "bool", b |-> b]
VInt(n) == [t |-> "int", n |-> n]
\* a finite float as repr() prints it: sign, integer part, fraction digits
VFloat(neg, ip, fr) == [t |-> "float", neg |-> neg, ip |-> ip, fr |-> fr]
VStr(s) == [t |-> "str", s |-> s]
VSeq(items) == [t |-> "seq", items |-> items]
\* a dict with string keys, as the sequence of its <<key, value>> items in
\* insertion order (keys distinct)
VMap(entries) == [t |-> "map", entries |-> entries]
\* a Python object json cannot encode (a file handle, a set, ...)
VObject == [t |-> "object"]

DigitChars == <<"0", "1", "2", "3", "4", "5", "6", "7", "8", "9">>

IsDigit(c) == \E d \in 1..10 : DigitChars[d] = c

DigitValue(c) == (CHOOSE d \in 1..10 : DigitChars[d] = c) - 1

RECURSIVE NatText(_)
NatText(n) ==
    IF n < 10 THEN <<DigitChars[n + 1]>>
    ELSE NatText(n \div 10) \o <<DigitChars[(n % 10) + 1]>>

RECURSIVE DigitsText(_)
DigitsText(ds) ==
    IF ds = <<>> THEN <<>> ELSE <<DigitChars[Head(ds) + 1]>> \o DigitsText(Tail(ds))

(***************************************************************************)
(* json.dumps(config) with the default arguments: ensure_ascii escapes,    *)
(* ", " and ": " separators, TypeError on an object it cannot encode.      *)
(***************************************************************************)
EncodeChar_NoEscape(c) == <<c>>
EncodeChar(c) ==
    CASE c = "\"" -> <<"\\", "\"">>
      [] c = "\\" -> <<"\\", "\\">>
      [] c = "\n" -> <<"\\", "n">>
      [] c = "\t" -> <<"\\", "t">>
      [] OTHER -> <<c>>

RECURSIVE EncodeChars(_)
EncodeChars(s) ==
    IF s = <<>> THEN <<>> ELSE EncodeChar(Head(s)) \o EncodeChars(Tail(s))

EncodeString(s) == <<"\"">> \o EncodeChars(s) \o <<"\"">>

RECURSIVE Representable(_)
Representable(v) ==
    CASE v.t = "seq" -> \A i \in 1..Len(v.items) : Representable(v.items[i])
      [] v.t = "map" -> \A i \in 1..Len(v.entries) : Representable(v.entries[i][2])
      [] v.t = "object" -> FALSE
      [] OTHER -> TRUE

RECURSIVE EncodeValue(_)
RECURSIVE EncodeItems(_)
RECURSIVE EncodeEntries(_)
EncodeItems(items) ==
    IF Len(items) = 1 THEN EncodeValue(items[1])
    ELSE EncodeValue(Head(items)) \o <<",", " ">> \o EncodeItems(Tail(items))

EncodeEntries(entries) ==
    LET first == EncodeString(entries[1][1]) \o <<":", " ">> \o EncodeValue(entries[1][2])
    IN  IF Len(entries) = 1 THEN first
        ELSE first \o <<",", " ">> \o EncodeEntries(Tail(entries))

EncodeValue(v) ==
    CASE v.t = "null" -> <<"n", "u", "l", "l">>
      [] v.t = "bool" -> IF v.b THEN <<"t", "r", "u", "e">> ELSE <<"f", "a", "l", "s", "e">>
      [] v.t = "int" -> IF v.n < 0 THEN <<"-">> \o NatText(-v.n) ELSE NatText(v.n)
      [] v.t = "float" ->
            (IF v.neg THEN <<"-">> ELSE <<>>) \o NatText(v.ip) \o <<".">> \o DigitsText(v.fr)
      [] v.t = "str" -> EncodeString(v.s)
      [] v.t = "seq" ->
            IF v.items = <<>> THEN <<"[", "]">>
            ELSE <<"[">> \o EncodeItems(v.items) \o <<"]">>
      [] v.t = "map" ->
            IF v.entries = <<>> THEN <<"{", "}">>
            ELSE <<"{">> \o EncodeEntries(v.entries) \o <<"}">>

\* json.dumps: the text, or the TypeError it raises
Dumps(v) ==
    IF Representable(v) THEN [ok |-> TRUE, text |-> EncodeValue(v)]
    ELSE [ok |-> FALSE, text |-> <<>>]

(***************************************************************************)
(* json.loads(text): a recursive-descent decoder.  A parse result is       *)
(* [ok, val, next]: next is the index after the value.                     *)
(***************************************************************************)
IsWs(c) == c \in {" ", "\t", "\n", "\r"}

RECURSIVE SkipWs(_, _)
SkipWs(s, i) == IF i <= Len(s) /\ IsWs(s[i]) THEN SkipWs(s, i + 1) ELSE i

PFail == [ok |-> FALSE, val |-> VNull, next |-> 0]

POk(v, n) == [ok |-> TRUE, val |-> v, next |-> n]

\* s has the literal lit at index i
HasAt(s, i, lit) ==
    /\ i + Len(lit) - 1 <= Len(s)
    /\ \A k \in 1..Len(lit) : s[i + k - 1] = lit[k]

DecodeEscape(c) ==
    CASE c = "n" -> "\n"
      [] c = "t" -> "\t"
      [] c = "r" -> "\r"
      [] OTHER -> c

\* the body of a string, from the index after its opening quote
RECURSIVE ScanString(_, _, _)
ScanString(s, i, acc) ==
    IF i > Len(s) THEN PFail
    ELSE IF s[i] = "\"" THEN POk(VStr(acc), i + 1)
    ELSE IF s[i] = "\\" THEN
        IF i + 1 <= Len(s) /\ s[i + 1] \in {"\"", "\\", "/", "n", "t", "r"}
        THEN ScanString(s, i + 2, Append(acc, DecodeEscape(s[i + 1])))
        ELSE PFail
    ELSE IF s[i] \in {"\n", "\t", "\r"} THEN PFail   \* strict: no control characters
    ELSE ScanString(s, i + 1, Append(acc, s[i]))

RECURSIVE ScanDigits(_, _)
ScanDigits(s, i) == IF i <= Len(s) /\ IsDigit(s[i]) THEN ScanDigits(s, i + 1) ELSE i

RECURSIVE DigitsNat(_, _, _)
DigitsNat(s, i, j) ==
    IF j < i THEN 0 ELSE DigitsNat(s, i, j - 1) * 10 + DigitValue(s[j])

RECURSIVE StripZeros(_)
StripZeros(ds) ==
    IF Len(ds) > 1 /\ ds[Len(ds)] = 0 THEN StripZeros(SubSeq(ds, 1, Len(ds) - 1)) ELSE ds

\* NUMBER_RE: -?(0|[1-9]\d*)(\.\d+)?  (no exponent in this model)
ScanNumber(s, i) ==
    LET neg == s[i] = "-"
        b == IF neg THEN i + 1 ELSE i
        e == IF b <= Len(s) /\ s[b] = "0" THEN b + 1 ELSE ScanDigits(s, b)
        hasFrac == e + 1 <= Len(s) /\ s[e] = "." /\ IsDigit(s[e + 1])
        f == IF hasFrac THEN ScanDigits(s, e + 1) ELSE e
        ip == DigitsNat(s, b, e - 1)
    IN  IF e = b THEN PFail
        ELSE IF hasFrac
        THEN POk(VFloat(neg, ip, StripZeros([k \in 1..(f - e - 1) |-> DigitValue(s[e + k])])), f)
        ELSE POk(VInt(IF neg THEN -ip ELSE ip), e)

\* dict[key] = value: a repeated key keeps its place and takes the new value
PutEntry(entries, k, v) ==
    IF \E i \in 1..Len(entries) : entries[i][1] = k
    THEN [i \in 1..Len(entries) |-> IF entries[i][1] = k THEN <<k, v>> ELSE entries[i]]
    ELSE Append(entries, <<k, v>>)

RECURSIVE ParseValue(_, _)
RECURSIVE ParseItems(_, _, _)
RECURSIVE ParseEntries(_, _, _)
\* i is the index of the next item of the array
ParseItems(s, i, acc) ==
    LET r == ParseValue(s, i)
        j == SkipWs(s, r.next)
    IN  IF ~r.ok \/ j > Len(s) THEN PFail
        ELSE IF s[j] = "]" THEN POk(VSeq(Append(acc, r.val)), j + 1)
        ELSE IF s[j] = "," THEN ParseItems(s, SkipWs(s, j + 1), Append(acc, r.val))
        ELSE PFail

\* i is the index of the opening quote of the next key of the object
ParseEntries(s, i, acc) ==
    IF i > Len(s) \/ s[i] # "\"" THEN PFail
    ELSE
    LET k == ScanString(s, i + 1, <<>>)
        c == SkipWs(s, k.next)
    IN  IF ~k.ok \/ c > Len(s) \/ s[c] # ":" THEN PFail
        ELSE
        LET r == ParseValue(s, SkipWs(s, c + 1))
            j == SkipWs(s, r.next)
        IN  IF ~r.ok \/ j > Len(s) THEN PFail
            ELSE IF s[j] = "}" THEN POk(VMap(PutEntry(acc, k.val.s, r.val)), j + 1)
            ELSE IF s[j] = ","
            THEN ParseEntries(s, SkipWs(s, j + 1), PutEntry(acc, k.val.s, r.val))
            ELSE PFail

ParseValue(s, i) ==
    IF i > Len(s) THEN PFail
    ELSE IF s[i] = "\"" THEN ScanString(s, i + 1, <<>>)
    ELSE IF s[i] = "{" THEN
        LET j == SkipWs(s, i + 1)
        IN  IF j <= Len(s) /\ s[j] = "}" THEN POk(VMap(<<>>), j + 1)
            ELSE ParseEntries(s, j, <<>>)
    ELSE IF s[i] = "[" THEN
        LET j == SkipWs(s, i + 1)
        IN  IF j <= Len(s) /\ s[j] = "]" THEN POk(VSeq(<<>>), j + 1)
            ELSE ParseItems(s, j, <<>>)
    ELSE IF HasAt(s, i, <<"n", "u", "l", "l">>) THEN POk(VNull, i + 4)
    ELSE IF HasAt(s, i, <<"t", "r", "u", "e">>) THEN POk(VBool(TRUE), i + 4)
    ELSE IF HasAt(s, i, <<"f", "a", "l", "s", "e">>) THEN POk(VBool(FALSE), i + 5)
    ELSE IF s[i] = "-" \/ IsDigit(s[i]) THEN ScanNumber(s, i)
    ELSE PFail

\* json.loads: the value, or the JSONDecodeError it raises
Loads(text) ==
    LET r == ParseValue(text, SkipWs(text, 1))
    IN  IF r.ok /\ SkipWs(text, r.next) > Len(text)
        THEN [ok |-> TRUE, val |-> r.val]
        ELSE [ok |-> FALSE, val |-> VNull]

\* json.dumps(output, indent = 4): items one per line, indented by level
Spaces(n) == [k \in 1..n |-> " "]

RECURSIVE EncodeIndented(_, _, _)
RECURSIVE IndentItems(_, _, _)
RECURSIVE IndentEntries(_, _, _)
IndentItems(items, indent, level) ==
    LET first == Spaces(indent * level) \o EncodeIndented(items[1], indent, level)
    IN  IF Len(items) = 1 THEN first
        ELSE first \o <<",", "\n">> \o IndentItems(Tail(items), indent, level)

IndentEntries(entries, indent, level) ==
    LET first == Spaces(indent * level) \o EncodeString(entries[1][1]) \o <<":", " ">>
                 \o EncodeIndented(entries[1][2], indent, level)
    IN  IF Len(entries) = 1 THEN first
        ELSE first \o <<",", "\n">> \o IndentEntries(Tail(entries), indent, level)

EncodeIndented(v, indent, level) ==
    IF v.t = "seq" /\ v.items # <<>>
    THEN <<"[", "\n">> \o IndentItems(v.items, indent, level + 1)
         \o <<"\n">> \o Spaces(indent * level) \o <<"]">>
    ELSE IF v.t = "map" /\ v.entries # <<>>
    THEN <<"{", "\n">> \o IndentEntries(v.entries, indent, level + 1)
         \o <<"\n">> \o Spaces(indent * level) \o <<"}">>
    ELSE EncodeValue(v)

\* the indent main prints its output with
PrintIndent == 4

(***************************************************************************)
(* The engine side of the call: what Runtime.serializedRun hands back is a *)
(* java.lang.String or null; str() of it is the text json.loads reads.     *)
(***************************************************************************)
JStr(s) == [j |-> "String", s |-> s]
JNull == [j |-> "null", s |-> <<>>]

\* str(raw_output)
Str(raw) == IF raw.j = "null" THEN <<"N", "o", "n", "e">> ELSE raw.s

\* the class object `from org.linqs.psl.runtime import Runtime` binds
RuntimeClass == [t |-> "class", name |-> "org.linqs.psl.runtime.Runtime"]

(***************************************************************************)
(* Text helpers of the command line: str.lower, str.strip, str.replace,    *)
(* os.path.dirname, and the % formatting of the usage line.                *)
(***************************************************************************)
UpperChars == <<"A", "B", "C", "D", "E", "F", "G", "H", "I", "J", "K", "L", "M",
                "N", "O", "P", "Q", "R", "S", "T", "U", "V", "W", "X", "Y", "Z">>
LowerChars == <<"a", "b", "c", "d", "e", "f", "g", "h", "i", "j", "k", "l", "m",
                "n", "o", "p", "q", "r", "s", "t", "u", "v", "w", "x", "y", "z">>

LowerChar(c) ==
    IF \E k \in 1..26 : UpperChars[k] = c
    THEN LowerChars[CHOOSE k \in 1..26 : UpperChars[k] = c]
    ELSE c

Lower(s) == [k \in 1..Len(s) |-> LowerChar(s[k])]

RECURSIVE LStrip(_)
LStrip(s) == IF s # <<>> /\ IsWs(Head(s)) THEN LStrip(Tail(s)) ELSE s

RECURSIVE RStrip(_)
RStrip(s) == IF s # <<>> /\ IsWs(s[Len(s)]) THEN RStrip(SubSeq(s, 1, Len(s) - 1)) ELSE s

Strip(s) == RStrip(LStrip(s))

RECURSIVE RemoveChar(_, _)
RemoveChar(s, c) ==
    IF s = <<>> THEN <<>>
    ELSE IF Head(s) = c THEN RemoveChar(Tail(s), c)
    ELSE <<Head(s)>> \o RemoveChar(Tail(s), c)

\* arg.lower().strip().replace('-', '')
NormalizeArg(arg) == RemoveChar(Strip(Lower(arg)), "-")

HelpWords == {<<"h">>, <<"h", "e", "l", "p">>}

RECURSIVE RStripSlash(_)
RStripSlash(s) ==
    IF s # <<>> /\ s[Len(s)] = "/" THEN RStripSlash(SubSeq(s, 1, Len(s) - 1)) ELSE s

\* os.path.dirname (posixpath): up to the last slash, trailing slashes dropped
\* unless the head is nothing but slashes
Dirname(p) ==
    LET slashes == {k \in 1..Len(p) : p[k] = "/"}
        i == IF slashes = {} THEN 0 ELSE CHOOSE k \in slashes : \A m \in slashes : m <= k
        head == SubSeq(p, 1, i)
    IN  IF head # <<>> /\ RStripSlash(head) # <<>> THEN RStripSlash(head) ELSE head

\* "USAGE: python3 %s <config path>" % (executable)
UsageLine(executable) ==
    <<"U", "S", "A", "G", "E", ":", " ", "p", "y", "t", "h", "o", "n", "3", " ">>
    \o executable
    \o <<" ", "<", "c", "o", "n", "f", "i", "g", " ", "p", "a", "t", "h", ">">>

\* the condition of _load_args, on the list left after args.pop(0)
UsageRejected_NoHelp(rest) == Len(rest) # 1
UsageRejected(rest) ==
    \/ Len(rest) # 1
    \/ HelpWords \cap {NormalizeArg(rest[k]) : k \in 1..Len(rest)} # {}

\* the status _load_args exits with
UsageExitStatus == 1

(***************************************************************************)
(* Bounds and the inputs the operations are called with.                   *)
(***************************************************************************)
\* calls a process makes before the model stops it
MaxCalls == 3
\* arguments after the executable name on a command line
MaxArgs == 2

Threads == {"main", "worker"}

StatusOkText == <<"{", "\"", "s", "t", "a", "t", "u", "s", "\"", ":", "\"", "o", "k", "\"", "}">>
StatusOkValue == VMap(<< <<<<"s", "t", "a", "t", "u", "s">>, VStr(<<"o", "k">>)>> >>)

\* configurations run is called with; the last two hold an object json cannot encode
Configs ==
    { VMap(<<>>),
      VMap(<< <<<<"r", "u", "l", "e", "s">>, VSeq(<<VStr(<<"A", " ", "\"", "&", "\"", " ", "B">>), VInt(-12)>>)>>,
              <<<<"o", "p", "t">>, VMap(<< <<<<"w">>, VFloat(FALSE, 0, <<2, 5>>)>>, <<<<"x">>, VNull>> >>)>> >>),
      VSeq(<<VBool(TRUE), VStr(<<"\\", "\n">>)>>),
      VObject,
      VMap(<< <<<<"f">>, VSeq(<<VInt(1), VObject>>)>> >>) }

BasePaths == {<<".">>, <<"d", "a", "t", "a">>}

JvmOptions == {<<>>, <<"-Xmx1g", "-Xms1g">>}

\* what the stub engine hands back, given the text it was called with
EngineReturns(text) ==
    { JStr(StatusOkText), JStr(text), JStr(<<"[", "1", ",">>), JNull }

Executables == {<<"r", "u", "n", ".", "p", "y">>, <<"p", "s", "l">>}

ArgPool ==
    { <<"-", "-", "h", "e", "l", "p">>, <<"-", "H">>, <<" ", "H", "e", "l", "p", "\n">>,
      <<"h", "-", "e", "l", "p">>, <<"-", " ", "h">>,
      <<"c", ".", "j", "s", "o", "n">>, <<"d", "/", "e", "/", "c", ".", "j", "s", "o", "n">>,
      <<"/", "c">> }

RECURSIVE SeqsUpTo(_, _)
SeqsUpTo(S, n) ==
    IF n = 0 THEN {<<>>}
    ELSE LET shorter == SeqsUpTo(S, n - 1)
         IN  shorter \cup {Append(q, e) : q \in shorter, e \in S}

\* sys.argv: the executable name and up to MaxArgs arguments
Argvs == {<<e>> \o rest : e \in Executables, rest \in SeqsUpTo(ArgPool, MaxArgs)}

\* what open(path) finds: no file, or a file with this text
NoFile == [exists |-> FALSE, text |-> <<>>]
FileOf(text) == [exists |-> TRUE, text |-> text]
Files == { NoFile, FileOf(<<"{", "}">>), FileOf(<<"{", "\"", "a", "\"", ":", " ", "[", "1", ",", " ", "2", "]", "}", "\n">>),
           FileOf(<<"{", "a", "}">>) }

(***************************************************************************)
(* State.                                                                  *)
(***************************************************************************)
VARIABLES
    jvm,        \* jpype's JVM: "Uninitialized", "Running" or "Stopped"
    jvmArgs,    \* the options the running JVM was started with
    jarPresent, \* psl-runtime.jar at JAR_PATH holds the Runtime class
    jlog,       \* the requests made of jpype: startJVM and shutdownJVM, in order
    handles,    \* the engine handles _init has returned, in order
    proc,       \* [state, status]: the process, and its exit status once exited
    stderr,     \* lines written to sys.stderr
    stdout,     \* lines written to sys.stdout
    args,       \* the list _load_args pops from (sys.argv)
    nCalls,     \* calls begun so far
    pc,         \* per thread: where it is in its call
    frame,      \* per thread: the call and its locals
    outcome,    \* per thread: what the call returned or raised
    steps,      \* per thread: the steps of the call executed so far
    invoked     \* per thread: the serializedRun invocations of the call

vars == <<jvm, jvmArgs, jarPresent, jlog, handles, proc, stderr, stdout, args, nCalls,
          pc, frame, outcome, steps, invoked>>

NoOutcome == [kind |-> "none", val |-> VNull, err |-> ""]
Returned(v) == [kind |-> "return", val |-> v, err |-> ""]
Raised(e) == [kind |-> "raise", val |-> VNull, err |-> e]

NoFrame ==
    [op |-> "", config |-> VNull, base_path |-> <<>>, jvm_options |-> <<>>,
     argv |-> <<>>, path |-> <<>>,
     \* the arguments evaluated for serializedRun
     text |-> <<>>, passed_path |-> <<>>,
     \* at the time of the call: the JVM, its options, the requests and handles so far
     jvm0 |-> "Uninitialized", args0 |-> <<>>, log0 |-> 0, h0 |-> 0,
     \* the number of the call in the process
     call |-> 0]

Traceback == <<"T", "r", "a", "c", "e", "b", "a", "c", "k">>

Init ==
    /\ jvm = "Uninitialized"
    /\ jvmArgs = <<>>
    /\ jarPresent \in BOOLEAN
    /\ jlog = <<>>
    /\ handles = <<>>
    /\ proc = [state |-> "alive", status |-> 0]
    /\ stderr = <<>>
    /\ stdout = <<>>
    /\ args = <<>>
    /\ nCalls = 0
    /\ pc = [t \in Threads |-> "idle"]
    /\ frame = [t \in Threads |-> NoFrame]
    /\ outcome = [t \in Threads |-> NoOutcome]
    /\ steps = [t \in Threads |-> <<>>]
    /\ invoked = [t \in Threads |-> <<>>]

(***************************************************************************)
(* jpype, as the bridge sees it.                                           *)
(***************************************************************************)
\* jpype.isJVMStarted()
JvmIsStarted == jvm = "Running"

\* the test of _init: start the JVM when jpype says none is started
NeedsStart_Always == TRUE
NeedsStart_UnlessStopped == jvm # "Stopped"
NeedsStart == ~JvmIsStarted

\* jpype.startJVM: a JVM is started once per process; a failed start leaves none
StartResults == IF jvm = "Uninitialized" THEN {"ok", "fail"} ELSE {"refused"}

\* jpype.shutdownJVM: stops the running JVM; without one the request fails or is
\* ignored, depending on the jpype version
ShutdownResults == IF jvm = "Running" THEN {"ok"} ELSE {"ignored", "fail"}

\* where a thread goes when a step raises: no handler, the call is over
AfterRaise_Retry(t) == "init_check"
AfterRaise(t) == "done"

\* a call may begin: the process lives, is not the script, and has calls left
CanCall(t) ==
    /\ proc.state = "alive"
    /\ pc[t] \in {"idle", "done"}
    /\ frame["main"].op # "__main__"
    /\ nCalls < MaxCalls

Begin(t, f, at) ==
    /\ nCalls' = nCalls + 1
    /\ pc' = [pc EXCEPT ![t] = at]
    /\ frame' = [frame EXCEPT ![t] = [f EXCEPT !.jvm0 = jvm, !.args0 = jvmArgs,
                                               !.log0 = Len(jlog), !.h0 = Len(handles),
                                               !.call = nCalls + 1]]
    /\ outcome' = [outcome EXCEPT ![t] = NoOutcome]
    /\ steps' = [steps EXCEPT ![t] = <<>>]
    /\ invoked' = [invoked EXCEPT ![t] = <<>>]

\* a step of thread t raises e: nobody catches it, so the call is over, and the
\* script ends with a traceback and status 1
Raise(t, e) ==
    /\ outcome' = [outcome EXCEPT ![t] = Raised(e)]
    /\ pc' = [pc EXCEPT ![t] = AfterRaise(t)]
    /\ IF frame[t].op = "__main__"
       THEN /\ proc' = [state |-> "exited", status |-> 1]
            /\ stderr' = Append(stderr, Traceback)
       ELSE UNCHANGED <<proc, stderr>>

\* the call of thread t returns v
Return(t, v) ==
    /\ outcome' = [outcome EXCEPT ![t] = Returned(v)]
    /\ pc' = [pc EXCEPT ![t] = "done"]
    /\ UNCHANGED <<proc, stderr>>

At(t, where) == proc.state = "alive" /\ pc[t] = where

Did(t, step) == steps' = [steps EXCEPT ![t] = Append(steps[t], step)]

(***************************************************************************)
(* The calls a caller can make.                                            *)
(***************************************************************************)
CallRun(t, config, base_path, jvm_options) ==
    /\ CanCall(t)
    /\ Begin(t, [NoFrame EXCEPT !.op = "run", !.config = config, !.base_path = base_path,
                                !.jvm_options = jvm_options], "init_check")
    /\ UNCHANGED <<jvm, jvmArgs, jarPresent, jlog, handles, proc, stderr, stdout, args>>

CallInit(t, jvm_options) ==
    /\ CanCall(t)
    /\ Begin(t, [NoFrame EXCEPT !.op = "_init", !.jvm_options = jvm_options], "init_check")
    /\ UNCHANGED <<jvm, jvmArgs, jarPresent, jlog, handles, proc, stderr, stdout, args>>

CallShutdown(t) ==
    /\ CanCall(t)
    /\ Begin(t, [NoFrame EXCEPT !.op = "_shutdown"], "shutdown")
    /\ UNCHANGED <<jvm, jvmArgs, jarPresent, jlog, handles, proc, stderr, stdout, args>>

(***************************************************************************)
(* _init: if (not jpype.isJVMStarted()): jpype.startJVM(...); import.      *)
(***************************************************************************)
InitCheck(t) ==
    /\ At(t, "init_check")
    /\ Did(t, "isJVMStarted")
    /\ pc' = [pc EXCEPT ![t] = IF NeedsStart THEN "init_start" ELSE "init_import"]
    /\ UNCHANGED <<jvm, jvmArgs, jarPresent, jlog, handles, proc, stderr, stdout, args,
                   nCalls, frame, outcome, invoked>>

InitStart(t) ==
    /\ At(t, "init_start")
    /\ Did(t, "startJVM")
    /\ \E r \in StartResults :
        /\ jlog' = Append(jlog, [req |-> "startJVM", res |-> r, call |-> frame[t].call])
        /\ IF r = "ok"
           THEN /\ jvm' = "Running"
                /\ jvmArgs' = frame[t].jvm_options
                /\ pc' = [pc EXCEPT ![t] = "init_import"]
                /\ UNCHANGED <<outcome, proc, stderr>>
           ELSE /\ Raise(t, "StartError")
                /\ UNCHANGED <<jvm, jvmArgs>>
    /\ UNCHANGED <<jarPresent, handles, stdout, args, nCalls, frame, invoked>>

InitImport(t) ==
    /\ At(t, "init_import")
    /\ Did(t, "import")
    /\ IF jarPresent /\ JvmIsStarted
       THEN /\ handles' = Append(handles, RuntimeClass)
            /\ IF frame[t].op = "_init"
               THEN Return(t, RuntimeClass)
               ELSE /\ pc' = [pc EXCEPT ![t] = "dumps"]
                    /\ UNCHANGED <<outcome, proc, stderr>>
       ELSE /\ Raise(t, "ImportError")
            /\ UNCHANGED handles
    /\ UNCHANGED <<jvm, jvmArgs, jarPresent, jlog, stdout, args, nCalls, frame, invoked>>

(***************************************************************************)
(* run: runtime.serializedRun(json.dumps(config), base_path), then         *)
(* json.loads(str(raw_output)).                                            *)
(***************************************************************************)
\* the arguments run passes to serializedRun
RunArgs_DefaultPath(config, base_path) == [text |-> Dumps(config), base_path |-> <<".">>]
RunArgs_DefaultStr(config, base_path) ==
    [text |-> IF Dumps(config).ok THEN Dumps(config)
              ELSE [ok |-> TRUE, text |-> EncodeString(<<"o", "b", "j", "e", "c", "t">>)],
     base_path |-> base_path]
RunArgs(config, base_path) == [text |-> Dumps(config), base_path |-> base_path]

\* what run makes of the engine's answer
RunResult(raw_output) == Loads(Str(raw_output))

RunDumps(t) ==
    /\ At(t, "dumps")
    /\ Did(t, "dumps")
    /\ LET a == RunArgs(frame[t].config, frame[t].base_path)
       IN  IF a.text.ok
           THEN /\ frame' = [frame EXCEPT ![t].text = a.text.text,
                                           ![t].passed_path = a.base_path]
                /\ pc' = [pc EXCEPT ![t] = "invoke"]
                /\ UNCHANGED <<outcome, proc, stderr>>
           ELSE /\ Raise(t, "TypeError")
                /\ UNCHANGED frame
    /\ UNCHANGED <<jvm, jvmArgs, jarPresent, jlog, handles, stdout, args, nCalls, invoked>>

\* the engine answers with a text or null
RunInvokeReturns(t) ==
    /\ At(t, "invoke")
    /\ JvmIsStarted
    /\ Did(t, "serializedRun")
    /\ \E raw \in EngineReturns(frame[t].text) :
        invoked' = [invoked EXCEPT ![t] = Append(invoked[t],
                        [text |-> frame[t].text, base_path |-> frame[t].passed_path,
                         threw |-> FALSE, raw |-> raw])]
    /\ pc' = [pc EXCEPT ![t] = "loads"]
    /\ UNCHANGED <<jvm, jvmArgs, jarPresent, jlog, handles, proc, stderr, stdout, args,
                   nCalls, frame, outcome>>

\* the engine throws, or there is no running JVM to call into
RunInvokeThrows(t) ==
    /\ At(t, "invoke")
    /\ Did(t, "serializedRun")
    /\ invoked' = IF JvmIsStarted
                  THEN [invoked EXCEPT ![t] = Append(invoked[t],
                            [text |-> frame[t].text, base_path |-> frame[t].passed_path,
                             threw |-> TRUE, raw |-> JNull])]
                  ELSE invoked
    /\ Raise(t, "JException")
    /\ UNCHANGED <<jvm, jvmArgs, jarPresent, jlog, handles, stdout, args, nCalls, frame>>

RunLoads(t) ==
    /\ At(t, "loads")
    /\ Did(t, "loads")
    /\ LET r == RunResult(invoked[t][Len(invoked[t])].raw)
       IN  IF r.ok
           THEN /\ outcome' = [outcome EXCEPT ![t] = Returned(r.val)]
                /\ pc' = [pc EXCEPT ![t] = IF frame[t].op = "__main__" THEN "main_print"
                                           ELSE "done"]
                /\ UNCHANGED <<proc, stderr>>
           ELSE Raise(t, "JSONDecodeError")
    /\ UNCHANGED <<jvm, jvmArgs, jarPresent, jlog, handles, stdout, args, nCalls, frame,
                   invoked>>

(***************************************************************************)
(* _shutdown: jpype.shutdownJVM().                                         *)
(***************************************************************************)
Shutdown(t) ==
    /\ At(t, "shutdown")
    /\ Did(t, "shutdownJVM")
    /\ \E r \in ShutdownResults :
        /\ jlog' = Append(jlog, [req |-> "shutdownJVM", res |-> r, call |-> frame[t].call])
        /\ jvm' = IF r = "ok" THEN "Stopped" ELSE jvm
        /\ IF r = "fail" THEN Raise(t, "ShutdownError") ELSE Return(t, VNull)
    /\ UNCHANGED <<jvmArgs, jarPresent, handles, stdout, args, nCalls, frame, invoked>>

(***************************************************************************)
(* The script: main(_load_args(sys.argv)).                                 *)
(***************************************************************************)
Script(argv) ==
    /\ proc.state = "alive"
    /\ nCalls = 0
    /\ Begin("main", [NoFrame EXCEPT !.op = "__main__", !.argv = argv], "load_args")
    /\ args' = argv
    /\ UNCHANGED <<jvm, jvmArgs, jarPresent, jlog, handles, proc, stderr, stdout>>

LoadArgs ==
    /\ At("main", "load_args")
    /\ Did("main", "_load_args")
    /\ LET executable == Head(args)
           rest == Tail(args)
       IN  IF UsageRejected(rest)
           THEN /\ args' = rest
                /\ stderr' = Append(stderr, UsageLine(executable))
                /\ proc' = [state |-> "exited", status |-> UsageExitStatus]
                /\ outcome' = [outcome EXCEPT !["main"] = Raised("SystemExit")]
                /\ pc' = [pc EXCEPT !["main"] = "done"]
                /\ UNCHANGED frame
           ELSE /\ args' = Tail(rest)
                /\ frame' = [frame EXCEPT !["main"].path = Head(rest)]
                /\ pc' = [pc EXCEPT !["main"] = "main_open"]
                /\ UNCHANGED <<stderr, proc, outcome>>
    /\ UNCHANGED <<jvm, jvmArgs, jarPresent, jlog, handles, stdout, nCalls, invoked>>

\* with open(path) as file: config = json.load(file); base_path = dirname(path)
MainOpen ==
    /\ At("main", "main_open")
    /\ Did("main", "open")
    /\ \E f \in Files :
        IF f.exists /\ Loads(f.text).ok
        THEN /\ frame' = [frame EXCEPT !["main"].config = Loads(f.text).val,
                                       !["main"].base_path = Dirname(frame["main"].path)]
             /\ pc' = [pc EXCEPT !["main"] = "init_check"]
             /\ UNCHANGED <<outcome, proc, stderr>>
        ELSE /\ Raise("main", IF f.exists THEN "JSONDecodeError" ELSE "FileNotFoundError")
             /\ UNCHANGED frame
    /\ UNCHANGED <<jvm, jvmArgs, jarPresent, jlog, handles, stdout, args, nCalls, invoked>>

\* print(json.dumps(output, indent = 4)), and the script is over
MainPrint ==
    /\ At("main", "main_print")
    /\ Did("main", "print")
    /\ stdout' = Append(stdout, EncodeIndented(outcome["main"].val, PrintIndent, 0))
    /\ proc' = [state |-> "exited", status |-> 0]
    /\ pc' = [pc EXCEPT !["main"] = "done"]
    /\ UNCHANGED <<jvm, jvmArgs, jarPresent, jlog, handles, stderr, args, nCalls, frame,
                   outcome, invoked>>

(***************************************************************************)
(* Specifications: one caller thread, and several.                         *)
(***************************************************************************)
Call(t) ==
    \/ \E c \in Configs, b \in BasePaths, o \in JvmOptions : CallRun(t, c, b, o)
    \/ \E o \in JvmOptions : CallInit(t, o)
    \/ CallShutdown(t)

Step(t) ==
    \/ InitCheck(t)
    \/ InitStart(t)
    \/ InitImport(t)
    \/ RunDumps(t)
    \/ RunInvokeReturns(t)
    \/ RunInvokeThrows(t)
    \/ RunLoads(t)
    \/ Shutdown(t)

ScriptStep ==
    \/ \E argv \in Argvs : Script(argv)
    \/ LoadArgs
    \/ MainOpen
    \/ MainPrint

Next == Call("main") \/ Step("main") \/ ScriptStep

Spec == Init /\ [][Next]_vars

\* several threads: the same calls, with fewer inputs each
CallMT(t) ==
    \/ \E c \in {VMap(<<>>), VObject}, o \in JvmOptions : CallRun(t, c, <<".">>, o)
    \/ \E o \in JvmOptions : CallInit(t, o)
    \/ CallShutdown(t)

NextMT == \E t \in Threads : CallMT(t) \/ Step(t)

SpecMT == Init /\ [][NextMT]_vars

(***************************************************************************)
(* The text encoding on its own: json.loads(json.dumps(v)) over a universe *)
(* of values of the structured model.                                      *)
(***************************************************************************)
\* items of a sequence, entries of a mapping
MaxLen == 2

Scalars ==
    { VNull, VBool(TRUE), VBool(FALSE), VInt(0), VInt(-7), VInt(120),
      VFloat(FALSE, 1, <<5>>), VFloat(TRUE, 0, <<0, 2>>),
      VStr(<<>>), VStr(<<"a", " ", "b">>), VStr(<<"\"", "\\">>), VStr(<<"\n", "\t", "/">>),
      VStr(<<"1", ",", "]", ":", "}", "n">>) }

Keys == {<<>>, <<"k">>, <<"a", "\"", ":">>}

\* the item lists of mappings over values V: up to n entries with distinct keys
RECURSIVE EntriesUpTo(_, _)
EntriesUpTo(V, n) ==
    IF n = 0 THEN {<<>>}
    ELSE LET shorter == EntriesUpTo(V, n - 1)
         IN  shorter \cup
             UNION { { Append(q, <<k, v>>) :
                         k \in {kk \in Keys : \A i \in 1..Len(q) : q[i][1] # kk}, v \in V }
                     : q \in shorter }

Containers(V) ==
    {VSeq(q) : q \in SeqsUpTo(V, MaxLen)} \cup {VMap(e) : e \in EntriesUpTo(V, MaxLen)}

\* what the second level of nesting is built from
Inner ==
    { VInt(-7), VStr(<<"\"", "\\">>), VSeq(<<>>), VSeq(<<VNull, VFloat(FALSE, 1, <<5>>)>>),
      VMap(<< <<<<"k">>, VBool(FALSE)>> >>) }

Values == Scalars \cup Containers(Scalars) \cup Containers(Inner)

InitCodec ==
    /\ jvm = "Uninitialized"
    /\ jvmArgs = <<>>
    /\ jarPresent = TRUE
    /\ jlog = <<>>
    /\ handles = <<>>
    /\ proc = [state |-> "alive", status |-> 0]
    /\ stderr = <<>>
    /\ stdout = <<>>
    /\ args = <<>>
    /\ nCalls = 0
    /\ pc = [t \in Threads |-> IF t = "main" THEN "codec_dumps" ELSE "idle"]
    /\ \E v \in Values :
        frame = [t \in Threads |-> IF t = "main"
                                   THEN [NoFrame EXCEPT !.op = "codec", !.config = v]
                                   ELSE NoFrame]
    /\ outcome = [t \in Threads |-> NoOutcome]
    /\ steps = [t \in Threads |-> <<>>]
    /\ invoked = [t \in Threads |-> <<>>]

CodecDumps ==
    /\ At("main", "codec_dumps")
    /\ Did("main", "dumps")
    /\ LET d == Dumps(frame["main"].config)
       IN  IF d.ok
           THEN /\ frame' = [frame EXCEPT !["main"].text = d.text]
                /\ pc' = [pc EXCEPT !["main"] = "codec_loads"]
                /\ UNCHANGED <<outcome, proc, stderr>>
           ELSE /\ Raise("main", "TypeError")
                /\ UNCHANGED frame
    /\ UNCHANGED <<jvm, jvmArgs, jarPresent, jlog, handles, stdout, args, nCalls, invoked>>

CodecLoads ==
    /\ At("main", "codec_loads")
    /\ Did("main", "loads")
    /\ LET r == Loads(frame["main"].text)
       IN  IF r.ok THEN Return("main", r.val) ELSE Raise("main", "JSONDecodeError")
    /\ UNCHANGED <<jvm, jvmArgs, jarPresent, jlog, handles, stdout, args, nCalls, frame,
                   invoked>>

NextCodec == CodecDumps \/ CodecLoads

SpecCodec == InitCodec /\ [][NextCodec]_vars

(***************************************************************************)
(* Properties.                                                             *)
(***************************************************************************)
StartRequests == {i \in 1..Len(jlog) : jlog[i].req = "startJVM"}
StopRequests == {i \in 1..Len(jlog) : jlog[i].req = "shutdownJVM"}

\* C1: once a shutdown has stopped the running JVM, no later call asks jpype to
\* start a JVM again
C1_NoStartAfterStop ==
    \A i \in StopRequests, j \in StartRequests : jlog[i].res = "ok" => j < i

\* C2: a _shutdown call made while no JVM is running is a no-op: it asks jpype for
\* nothing, leaves the JVM state as it was and raises nothing
C2_ShutdownNoOpUnlessRunning ==
    \A t \in Threads :
        frame[t].op = "_shutdown" /\ pc[t] = "done" /\ frame[t].jvm0 # "Running"
            => /\ Len(jlog) = frame[t].log0
               /\ jvm = frame[t].jvm0
               /\ outcome[t].kind = "return"

\* C3: the test of _init and the start it guards exclude each other across
\* threads: two threads are never both past the test and about to start the JVM
C3_StartMutex ==
    \A t1, t2 \in Threads :
        pc[t1] = "init_start" /\ pc[t2] = "init_start" => t1 = t2

\* C4 as stated: with no shutdown so far, at most one start is ever requested, and
\* the JVM is started by the first call
C4_StartActionsAtMostOnce ==
    StopRequests = {}
        => /\ Cardinality(StartRequests) <= 1
           /\ \A i \in StartRequests : jlog[i].res = "ok" => jlog[i].call = 1

\* C4 as amended: with no shutdown so far, the JVM is started at most once, by the
\* first call whose start succeeds: each call before it requested one start, which
\* failed, and no start is requested after it
C4_StartedAtMostOnce ==
    StopRequests = {}
        => /\ Cardinality({i \in StartRequests : jlog[i].res = "ok"}) <= 1
           /\ \A i \in 1..Len(jlog) :
                /\ jlog[i].call = i
                /\ jlog[i].res = IF i < Len(jlog) THEN "fail" ELSE jlog[i].res
                /\ jlog[i].res \in {"ok", "fail"}
           /\ (jvm = "Running") = (\E i \in StartRequests : jlog[i].res = "ok")
           /\ (jvm = "Running" \/ jvm = "Uninitialized")

\* two starts failed, the third succeeded
C4_Witness ==
    /\ StopRequests = {}
    /\ Len(jlog) = 2
    /\ jlog[1].res = "fail" /\ jlog[2].res = "ok"
    /\ frame["main"].call = 3 /\ pc["main"] = "done"
    /\ steps["main"] = <<"isJVMStarted", "import">>

\* C5: an _init call made while the JVM runs and a handle has been returned before
\* returns that handle, raises nothing, asks jpype for nothing and leaves the JVM
\* and the options it was started with as they were, whatever options it is given
C5_InitIdempotent ==
    \A t \in Threads :
        /\ frame[t].op = "_init" /\ pc[t] = "done"
        /\ frame[t].jvm0 = "Running" /\ frame[t].h0 > 0
        => /\ outcome[t] = Returned(handles[1])
           /\ jvm = "Running"
           /\ jvmArgs = frame[t].args0
           /\ Len(jlog) = frame[t].log0

\* a second _init, with options other than those the JVM was started with
C5_Witness ==
    /\ frame["main"].op = "_init" /\ pc["main"] = "done"
    /\ frame["main"].jvm0 = "Running" /\ frame["main"].h0 > 0
    /\ frame["main"].jvm_options # jvmArgs
    /\ outcome["main"].kind = "return"

\* C6: a run that returns has invoked serializedRun once, with the text of the
\* configuration and the base path, and returns the value of the text it got
C6_RunInvokesOnce ==
    \A t \in Threads :
        frame[t].op \in {"run", "__main__"} /\ outcome[t].kind = "return"
            => /\ Len(invoked[t]) = 1
               /\ Dumps(frame[t].config).ok
               /\ invoked[t][1].text = Dumps(frame[t].config).text
               /\ invoked[t][1].base_path = frame[t].base_path
               /\ ~invoked[t][1].threw
               /\ Loads(Str(invoked[t][1].raw)).ok
               /\ outcome[t].val = Loads(Str(invoked[t][1].raw)).val
               /\ (invoked[t][1].raw = JStr(StatusOkText) => outcome[t].val = StatusOkValue)

C6_Witness ==
    /\ frame["main"].op = "run" /\ pc["main"] = "done"
    /\ frame["main"].config = VMap(<<>>)
    /\ frame["main"].base_path = <<"d", "a", "t", "a">>
    /\ Len(invoked["main"]) = 1
    /\ invoked["main"][1].raw = JStr(StatusOkText)
    /\ outcome["main"] = Returned(StatusOkValue)

\* sub occurs in s
Contains(s, sub) ==
    \E i \in 0..(Len(s) - Len(sub)) : \A k \in 1..Len(sub) : s[i + k] = sub[k]

\* C7: once _load_args is over, a command line with no argument or several, or
\* whose one argument is h or help once lower-cased, stripped and rid of dashes,
\* has printed a usage line naming the executable to stderr and left with a
\* status other than 0 without any request to jpype; any other command line has
\* given its one argument as the path
C7_LoadArgs ==
    frame["main"].op = "__main__" /\ pc["main"] # "load_args"
        => LET argv == frame["main"].argv
               rest == Tail(argv)
               help == {<<"-", "-", "h", "e", "l", "p">>, <<"-", "H">>,
                        <<" ", "H", "e", "l", "p", "\n">>, <<"h", "-", "e", "l", "p">>}
               rejected == \/ Len(rest) # 1
                           \/ RemoveChar(Strip(Lower(rest[1])), "-") \in HelpWords
           IN  /\ Len(rest) = 1 /\ rest[1] \in help => rejected
               /\ Len(rest) = 1 /\ rest[1] \in ArgPool \ help => ~rejected
               /\ IF rejected
                  THEN /\ stderr # <<>>
                       /\ Contains(stderr[1], <<"U", "S", "A", "G", "E">>)
                       /\ Contains(stderr[1], Head(argv))
                       /\ proc.state = "exited" /\ proc.status # 0
                       /\ jlog = <<>> /\ jvm = "Uninitialized"
                       /\ steps["main"] = <<"_load_args">>
                       /\ stdout = <<>>
                  ELSE /\ frame["main"].path = rest[1]
                       /\ \A i \in 1..Len(stderr) : ~Contains(stderr[i], <<"U", "S", "A", "G", "E">>)

C7_Witness ==
    /\ frame["main"].argv = <<<<"p", "s", "l">>, <<" ", "H", "e", "l", "p", "\n">>>>
    /\ proc = [state |-> "exited", status |-> 1]
    /\ stderr = <<UsageLine(<<"p", "s", "l">>)>>

\* C9 as stated: a run called with no JVM started and a configuration json cannot
\* encode ends with the JVM running, the TypeError of json.dumps raised and
\* serializedRun not invoked
C9_StartedThenSerializationFails ==
    \A t \in Threads :
        /\ frame[t].op = "run" /\ pc[t] = "done"
        /\ ~Representable(frame[t].config) /\ frame[t].jvm0 = "Uninitialized"
        => /\ jvm = "Running"
           /\ outcome[t] = Raised("TypeError")
           /\ invoked[t] = <<>>

\* C9 as amended: such a run requests the start before it serializes; when the
\* start succeeds and the engine class loads, it ends with the JVM running and the
\* TypeError of json.dumps raised; when the start or the load fails, it ends with
\* that error and never serializes; serializedRun is not invoked either way
C9_StartBeforeSerialization ==
    \A t \in Threads :
        /\ frame[t].op = "run" /\ pc[t] = "done"
        /\ ~Representable(frame[t].config) /\ frame[t].jvm0 = "Uninitialized"
        => /\ invoked[t] = <<>>
           /\ \A i \in 1..Len(steps[t]) : steps[t][i] # "serializedRun"
           /\ outcome[t].kind = "raise"
           /\ Len(steps[t]) >= 2
           /\ steps[t][1] = "isJVMStarted" /\ steps[t][2] = "startJVM"
           /\ Len(jlog) = frame[t].log0 + 1
           /\ jlog[Len(jlog)].req = "startJVM"
           /\ IF jlog[Len(jlog)].res = "ok" /\ jarPresent
              THEN /\ jvm = "Running"
                   /\ outcome[t].err = "TypeError"
                   /\ steps[t] = <<"isJVMStarted", "startJVM", "import", "dumps">>
              ELSE IF jlog[Len(jlog)].res = "ok"
              THEN /\ jvm = "Running"
                   /\ outcome[t].err = "ImportError"
                   /\ steps[t] = <<"isJVMStarted", "startJVM", "import">>
              ELSE /\ jvm = "Uninitialized"
                   /\ outcome[t].err = "StartError"
                   /\ steps[t] = <<"isJVMStarted", "startJVM">>

C9_Witness ==
    /\ frame["main"].op = "run" /\ pc["main"] = "done"
    /\ frame["main"].config = VMap(<< <<<<"f">>, VSeq(<<VInt(1), VObject>>)>> >>)
    /\ frame["main"].jvm0 = "Uninitialized" /\ jvm = "Running"
    /\ outcome["main"] = Raised("TypeError")
    /\ steps["main"] = <<"isJVMStarted", "startJVM", "import", "dumps">>

\* the order of the steps of a call
StepOrder ==
    <<"_load_args", "open", "isJVMStarted", "startJVM", "import", "dumps", "serializedRun",
      "loads", "print", "shutdownJVM">>

Rank(step) == CHOOSE k \in 1..Len(StepOrder) : StepOrder[k] = step

\* what C10 says of a state: the steps of each call are in order, each at most
\* once; a call that raised is over, with no value
C10_State ==
    \A t \in Threads :
        /\ \A i, j \in 1..Len(steps[t]) : i < j => Rank(steps[t][i]) < Rank(steps[t][j])
        /\ outcome[t].kind = "raise" => pc[t] = "done" /\ outcome[t].val = VNull
        /\ pc[t] = "done" => outcome[t].kind \in {"return", "raise"}

\* C10: no recovery. In every step: the steps of a call stay in order, each at
\* most once; the step that raises ends the call with the error and no value, and
\* leaves the JVM as it found it; only _shutdown takes the JVM out of Running
C10_NoRecovery ==
    [][ /\ C10_State'
        /\ \A t \in Threads :
              outcome[t].kind # "raise" /\ outcome'[t].kind = "raise"
              /\ frame[t].op \in {"run", "_init", "__main__"}
                  => jvm' = jvm /\ jvmArgs' = jvmArgs
        /\ jvm = "Running" /\ jvm' # "Running"
              => \E t \in Threads : frame[t].op = "_shutdown" /\ pc[t] = "shutdown"
      ]_vars

\* a run whose last step, json.loads, raised, with the JVM left running
C10_Witness ==
    /\ frame["main"].op = "run" /\ pc["main"] = "done"
    /\ outcome["main"] = Raised("JSONDecodeError")
    /\ steps["main"] = <<"isJVMStarted", "startJVM", "import", "dumps", "serializedRun", "loads">>
    /\ Len(invoked["main"]) = 1
    /\ jvm = "Running"

\* C8: decoding the encoding of a value gives the value back
C8_RoundTrip ==
    pc["main"] = "done" /\ frame["main"].op = "codec"
        => outcome["main"] = Returned(frame["main"].config)

C8_Witness ==
    /\ pc["main"] = "done"
    /\ frame["main"].config = VMap(<< <<<<"a", "\"", ":">>, VStr(<<"\"", "\\">>)>>,
                                      <<<<"k">>, VSeq(<<VNull, VFloat(FALSE, 1, <<5>>)>>)>> >>)
    /\ outcome["main"].kind = "return"
====
